---------------------------- MODULE Spec2Model ----------------------------
(***************************************************************************)
(* Model of telega/client.py (TelegramTDLibClient): the request correlator *)
(* (call_method / _wait_result), the error classifier (_handle_errors),    *)
(* the pagination engines and the construction / teardown of the client.   *)
(*                                                                         *)
(* Five specifications share the module:                                    *)
(*   SpecClassify    _handle_errors applied to every bounded envelope      *)
(*   SpecCall        call_method and _wait_result against a channel that   *)
(*                   emits arbitrary envelopes, with a wall clock          *)
(*   SpecLifetime    the same calls, made without a timeout of their own,  *)
(*                   with the history of the matched envelopes kept        *)
(*   SpecConcurrent  two threads in call_method on one channel whose       *)
(*                   remote side answers every request at most once        *)
(*   SpecClient      the public operations, each call_method being one     *)
(*                   step whose outcome (envelope, classified error,       *)
(*                   timeout) the remote side chooses                      *)
(***************************************************************************)
EXTENDS Integers, Sequences, FiniteSets, TLC

(***************************************************************************)
(* Bounds                                                                  *)
(***************************************************************************)
MaxCalls == 2          \* call_method invocations per behaviour of SpecCall
MaxInbox == 1          \* envelopes waiting in the channel at one time
MaxTimeout == 2        \* largest timeout drawn, in clock ticks
MaxDiscarded == 2      \* the discard counter saturates here

(***************************************************************************)
(* Encodings of Python values                                              *)
(***************************************************************************)
None == -1             \* Python None where the other values are numbers >= 0
NoExtra == 0           \* an envelope without '@extra' / 'request_id'
Absent == "@absent"    \* a key that the response dict does not hold
Nothing == [rid |-> NoExtra, type |-> "@nothing", code |-> None, message |-> Absent]
                       \* receive() produced no value

(***************************************************************************)
(* Error classifier: _handle_errors                                        *)
(***************************************************************************)
Messages ==
    { "PHONE_NUMBER_INVALID", "PASSWORD_HASH_INVALID", "PHONE_CODE_INVALID",
      "Supergroup members are unavailable", "Chat not found",
      "setAuthenticationPhoneNumber unexpected", "Already logging out",
      "Unauthorized", "Too Many Requests: retry after 5", "Internal", Absent }

Codes == { None, 400, 401, 420, 429, 500 }

Types == { "error", "ok", "authorizationStateWaitPassword" }

\* exc_msg = 'Telegram error: %s -> %s' % (code, message), kept as the pair
exc_msg(code, message) == <<code, message>>

NotRaised == [kind |-> "none", exc |-> <<None, Absent>>]

Raise(kind, exc) == [kind |-> kind, exc |-> exc]

\* response.get('message', 'Empty error message')
GetMessage(response) ==
    IF response.message = Absent THEN "Empty error message" ELSE response.message

\* response.get('code')
GetCode(response) == response.code

_handle_errors_CodeFirst(response) ==
    IF response.type = "error"
    THEN LET message == GetMessage(response)
             code == GetCode(response)
             m == exc_msg(code, message)
         IN  IF code = 401 \/ message = "Unauthorized" THEN Raise("AuthError", m)
             ELSE IF code \in {429, 420} THEN Raise("TooManyRequests", m)
             ELSE IF message = "PHONE_NUMBER_INVALID" THEN Raise("InvalidPhoneNumber", m)
             ELSE IF message = "PASSWORD_HASH_INVALID" THEN Raise("PasswordError", m)
             ELSE IF message = "PHONE_CODE_INVALID" THEN Raise("PhoneCodeInvalid", m)
             ELSE IF message = "Supergroup members are unavailable" THEN Raise("NoPermission", m)
             ELSE IF message = "Chat not found" THEN Raise("ObjectNotFound", m)
             ELSE IF message = "setAuthenticationPhoneNumber unexpected" THEN Raise("AlreadyAuthorized", m)
             ELSE IF message = "Already logging out" THEN Raise("AlreadyLoggingOut", m)
             ELSE Raise("UnknownError", m)
    ELSE NotRaised

_handle_errors(response) ==
    IF response.type = "error"
    THEN LET message == GetMessage(response)
             code == GetCode(response)
             m == exc_msg(code, message)
         IN  IF message = "PHONE_NUMBER_INVALID" THEN Raise("InvalidPhoneNumber", m)
             ELSE IF message = "PASSWORD_HASH_INVALID" THEN Raise("PasswordError", m)
             ELSE IF message = "PHONE_CODE_INVALID" THEN Raise("PhoneCodeInvalid", m)
             ELSE IF message = "Supergroup members are unavailable" THEN Raise("NoPermission", m)
             ELSE IF message = "Chat not found" THEN Raise("ObjectNotFound", m)
             ELSE IF message = "setAuthenticationPhoneNumber unexpected" THEN Raise("AlreadyAuthorized", m)
             ELSE IF message = "Already logging out" THEN Raise("AlreadyLoggingOut", m)
             ELSE IF code = 401 \/ message = "Unauthorized" THEN Raise("AuthError", m)
             ELSE IF code \in {429, 420} THEN Raise("TooManyRequests", m)
             ELSE Raise("UnknownError", m)
    ELSE NotRaised

VARIABLES cl_response, cl_raised, cl_done

cl_vars == <<cl_response, cl_raised, cl_done>>

ClassifyEnvelopes == [rid : {NoExtra}, type : Types, code : Codes, message : Messages]

ClassifyIdle ==
    /\ cl_response = Nothing
    /\ cl_raised = NotRaised
    /\ cl_done = FALSE

\* the classifier is applied to the envelope drawn by ClassifyInit
HandleErrors ==
    /\ cl_done = FALSE
    /\ cl_response # Nothing
    /\ cl_raised' = _handle_errors(cl_response)
    /\ cl_done' = TRUE
    /\ UNCHANGED cl_response

(***************************************************************************)
(* Request correlator: call_method and _wait_result                        *)
(***************************************************************************)
VARIABLES
    request_timeout,   \* self.request_timeout
    now,               \* time.time()
    next_id,           \* the identifiers uuid4 has not produced yet start here
    inbox,             \* envelopes the channel holds for receive()
    sent,              \* requests handed to TDJson.send, in order
    cm,                \* "idle", "waiting", "returned" or "raised"
    request_id,        \* local of call_method / _wait_result
    timeout_arg,       \* the timeout parameter as call_method was given it
    timeout,           \* timeout after 'timeout or self.request_timeout'
    started_at,        \* local of _wait_result
    result,            \* the envelope call_method returned
    error,             \* the exception call_method raised
    ended_by,          \* the envelope that ended the call (none on a timeout)
    nDiscarded         \* envelopes this call dequeued and did not match

call_vars == <<request_timeout, now, next_id, inbox, sent, cm, request_id,
               timeout_arg, timeout, started_at, result, error, ended_by,
               nDiscarded>>

ForeignId == MaxCalls + 1      \* an identifier this client never generates

\* (method_name, '@type' among the keyword parameters) of the calls made:
\* get_me passes no '@type'
Requests == { <<"getMe", Absent>> }

Timeouts == {None} \cup (0 .. MaxTimeout)

\* the values of the request_timeout argument of __init__
RequestTimeouts == {None, 0, MaxTimeout}

CallErrors == { <<401, "Unauthorized">> }

CallEnvelopes ==
    { [rid |-> r, type |-> "ok", code |-> None, message |-> Absent] :
        r \in 0 .. ForeignId }
    \cup
    { [rid |-> r, type |-> "error", code |-> cmsg[1], message |-> cmsg[2]] :
        r \in 0 .. ForeignId, cmsg \in CallErrors }

Last(q) == q[Len(q)]

\* uuid.uuid4().hex of the n-th invocation: no two invocations get the same
uuid4_Reused(n) == 1

uuid4(n) == n

\* Python truthiness of a timeout value
Truthy(t) == t # None /\ t # 0

\* a or b
PyOr_Default(a, b) == b

PyOr(a, b) == IF Truthy(a) THEN a ELSE b

\* response.get('@extra', {}).get('request_id')
received_request_id(response) ==
    IF response.rid = NoExtra THEN None ELSE response.rid

TimeOutError == Raise("UnknownError", <<None, "TimeOutError">>)

\* request_id == received_request_id
Matches_DefaultOwn(rid, response) ==
    response.rid = NoExtra \/ rid = received_request_id(response)

Matches_AnyIssued(rid, response) == received_request_id(response) # None

Matches(rid, response) == rid = received_request_id(response)

Waiting == [cm |-> "waiting", result |-> Nothing, error |-> NotRaised, ended_by |-> Nothing]

TimedOut == [cm |-> "raised", result |-> Nothing, error |-> TimeOutError, ended_by |-> Nothing]

\* self._handle_errors(response); return response
Matched(response) ==
    IF _handle_errors(response).kind # "none"
    THEN [cm |-> "raised", result |-> Nothing, error |-> _handle_errors(response),
          ended_by |-> response]
    ELSE [cm |-> "returned", result |-> response, error |-> NotRaised,
          ended_by |-> response]

\* one iteration of the loop of _wait_result, given what receive() produced
\* and the clock read by the timeout test
_wait_result_AnyExtra(rid, tmo, started, clock, response) ==
    IF response # Nothing /\ received_request_id(response) # None
    THEN Matched(response)
    ELSE IF Truthy(tmo) /\ clock - started > tmo THEN TimedOut ELSE Waiting

_wait_result_SilentOnly(rid, tmo, started, clock, response) ==
    IF response # Nothing /\ Matches(rid, response)
    THEN Matched(response)
    ELSE IF response = Nothing /\ Truthy(tmo) /\ clock - started > tmo
         THEN TimedOut ELSE Waiting

_wait_result(rid, tmo, started, clock, response) ==
    IF response # Nothing /\ Matches(rid, response)
    THEN Matched(response)
    ELSE IF Truthy(tmo) /\ clock - started > tmo THEN TimedOut ELSE Waiting

\* the '@type' of data after data.update(params)
RequestType_MethodName(method_name, ptype) == method_name

RequestType(method_name, ptype) == IF ptype = Absent THEN method_name ELSE ptype

\* data = {'@type': method_name, '@extra': {'request_id': request_id}};
\* data.update(params)
RequestEnvelope(method_name, rid, ptype) ==
    [type |-> RequestType(method_name, ptype), rid |-> rid]

CallIdle ==
    /\ request_timeout = 0
    /\ now = 0
    /\ next_id = 1
    /\ inbox = <<>>
    /\ sent = <<>>
    /\ cm = "idle"
    /\ request_id = NoExtra
    /\ timeout_arg = None
    /\ timeout = 0
    /\ started_at = 0
    /\ result = Nothing
    /\ error = NotRaised
    /\ ended_by = Nothing
    /\ nDiscarded = 0

CallInit ==
    /\ request_timeout \in RequestTimeouts
    /\ now = 0
    /\ next_id = 1
    /\ inbox = <<>>
    /\ sent = <<>>
    /\ cm = "idle"
    /\ request_id = NoExtra
    /\ timeout_arg = None
    /\ timeout = 0
    /\ started_at = 0
    /\ result = Nothing
    /\ error = NotRaised
    /\ ended_by = Nothing
    /\ nDiscarded = 0

\* call_method(method_name, timeout=t, **params) up to the first receive:
\* the request is built and sent, and _wait_result reads the clock
CallMethodGiven(t) ==
    /\ cm = "idle"
    /\ next_id <= MaxCalls
    /\ timeout_arg' = t
    /\ timeout' = PyOr(t, request_timeout)
    /\ \E rq \in Requests :
          sent' = Append(sent, RequestEnvelope(rq[1], uuid4(next_id), rq[2]))
    /\ request_id' = uuid4(next_id)
    /\ next_id' = next_id + 1
    /\ started_at' = now
    /\ cm' = "waiting"
    /\ result' = Nothing
    /\ error' = NotRaised
    /\ ended_by' = Nothing
    /\ nDiscarded' = 0
    /\ UNCHANGED <<request_timeout, now, inbox>>

CallMethod == \E t \in Timeouts : CallMethodGiven(t)

\* the same iteration, were the request sent again when the wait fails
WaitStep_Resend ==
    /\ cm = "waiting"
    /\ LET response == IF inbox = <<>> THEN Nothing ELSE Head(inbox)
           out == _wait_result(request_id, timeout, started_at, now, response)
       IN  /\ inbox' = IF inbox = <<>> THEN inbox ELSE Tail(inbox)
           /\ cm' = out.cm
           /\ result' = out.result
           /\ error' = out.error
           /\ ended_by' = out.ended_by
           /\ sent' = IF out.cm = "raised" THEN Append(sent, Last(sent)) ELSE sent
           /\ nDiscarded' = IF response # Nothing /\ out.ended_by = Nothing
                                 /\ nDiscarded < MaxDiscarded
                            THEN nDiscarded + 1 ELSE nDiscarded
    /\ UNCHANGED <<request_timeout, now, next_id, request_id, timeout_arg, timeout,
                   started_at>>

\* one iteration of 'while True' in _wait_result
WaitStep ==
    /\ cm = "waiting"
    /\ LET response == IF inbox = <<>> THEN Nothing ELSE Head(inbox)
           out == _wait_result(request_id, timeout, started_at, now, response)
       IN  /\ inbox' = IF inbox = <<>> THEN inbox ELSE Tail(inbox)
           /\ cm' = out.cm
           /\ result' = out.result
           /\ error' = out.error
           /\ ended_by' = out.ended_by
           /\ nDiscarded' = IF response # Nothing /\ out.ended_by = Nothing
                                 /\ nDiscarded < MaxDiscarded
                            THEN nDiscarded + 1 ELSE nDiscarded
    /\ UNCHANGED <<request_timeout, now, next_id, sent, request_id, timeout_arg,
                   timeout, started_at>>

\* call_method has returned or raised: its frame and locals are gone and the
\* caller goes on
CallReturn ==
    /\ cm \in {"returned", "raised"}
    /\ cm' = "idle"
    /\ request_id' = NoExtra
    /\ timeout_arg' = None
    /\ timeout' = 0
    /\ started_at' = 0
    /\ result' = Nothing
    /\ error' = NotRaised
    /\ ended_by' = Nothing
    /\ nDiscarded' = 0
    /\ UNCHANGED <<request_timeout, now, next_id, inbox, sent>>

\* the wall clock advances; only the timeout test of a waiting call reads it,
\* so its advance is followed until that call's deadline has passed, and for
\* a call without a deadline until the longest timeout has passed
Tick ==
    /\ cm = "waiting"
    /\ now - started_at <= (IF Truthy(timeout) THEN timeout ELSE MaxTimeout)
    /\ now' = now + 1
    /\ UNCHANGED <<request_timeout, next_id, inbox, sent, cm, request_id, timeout_arg,
                   timeout, started_at, result, error, ended_by, nDiscarded>>

\* the channel produces an envelope: an answer to a request sent earlier, an
\* update without '@extra', or an envelope carrying a foreign identifier
Emit ==
    /\ Len(inbox) < MaxInbox
    /\ \E e \in CallEnvelopes :
          /\ e.rid \in {NoExtra, ForeignId} \cup (1 .. next_id - 1)
          /\ inbox' = Append(inbox, e)
    /\ UNCHANGED <<request_timeout, now, next_id, sent, cm, request_id, timeout_arg,
                   timeout, started_at, result, error, ended_by, nDiscarded>>

(***************************************************************************)
(* The lifetime of the correlator: the calls of one client one after the   *)
(* other, with what became of the envelopes remembered                     *)
(***************************************************************************)
VARIABLES
    matched,           \* envelopes matched so far, per identifier
    late               \* envelopes discarded that carried the identifier of
                       \* an earlier call

life_vars == <<matched, late>>

MaxMatched == 2        \* the match counters saturate here

LifeIdle ==
    /\ matched = [i \in 1 .. MaxCalls |-> 0]
    /\ late = 0

\* an envelope that carries the identifier of a call made before this one
IsLate(rid, response) ==
    /\ response # Nothing
    /\ received_request_id(response) # None
    /\ \E i \in 1 .. next_id - 2 : received_request_id(response) = uuid4(i)

\* WaitStep, and what it did with the envelope it dequeued
LifeWaitStep ==
    /\ WaitStep
    /\ matched' = IF ended_by' # Nothing /\ matched[request_id] < MaxMatched
                  THEN [matched EXCEPT ![request_id] = @ + 1]
                  ELSE matched
    /\ late' = IF inbox # <<>> /\ ended_by' = Nothing
                    /\ IsLate(request_id, Head(inbox)) /\ late < MaxDiscarded
               THEN late + 1 ELSE late

(***************************************************************************)
(* Two threads in call_method on the same client                           *)
(***************************************************************************)
VARIABLES
    threads,           \* the locals of call_method / _wait_result per thread
    answered,          \* the identifiers the remote side has answered
    dropped            \* identifiers of envelopes a thread dequeued and
                       \* discarded while the thread that issued them waited

conc_vars == <<threads, answered, dropped>>

Callers == { "A", "B" }

caller_locals == <<cm, request_id, timeout_arg, timeout, started_at, result, error,
                   ended_by, nDiscarded>>

CallerIdle ==
    [cm |-> "idle", request_id |-> NoExtra, timeout |-> 0, started_at |-> 0,
     result |-> Nothing, error |-> NotRaised, ended_by |-> Nothing]

ConcIdle ==
    /\ threads = [p \in Callers |-> CallerIdle]
    /\ answered = {}
    /\ dropped = {}

\* call_method(method_name, **params) of thread p up to its first receive
ConcCallMethod(p) ==
    /\ threads[p].cm = "idle"
    /\ next_id <= MaxCalls
    /\ \E rq \in Requests :
          /\ threads' = [threads EXCEPT ![p] =
                [cm |-> "waiting", request_id |-> uuid4(next_id),
                 timeout |-> PyOr(None, request_timeout), started_at |-> now,
                 result |-> Nothing, error |-> NotRaised, ended_by |-> Nothing]]
          /\ sent' = Append(sent, RequestEnvelope(rq[1], uuid4(next_id), rq[2]))
    /\ next_id' = next_id + 1
    /\ UNCHANGED <<request_timeout, now, inbox, caller_locals, answered, dropped>>

\* one iteration of 'while True' in _wait_result of thread p; receive hands
\* an envelope to one thread only
ConcWaitStep(p) ==
    /\ threads[p].cm = "waiting"
    /\ LET me == threads[p]
           response == IF inbox = <<>> THEN Nothing ELSE Head(inbox)
           out == _wait_result(me.request_id, me.timeout, me.started_at, now, response)
       IN  /\ inbox' = IF inbox = <<>> THEN inbox ELSE Tail(inbox)
           /\ threads' = [threads EXCEPT ![p] =
                 [me EXCEPT !.cm = out.cm, !.result = out.result,
                            !.error = out.error, !.ended_by = out.ended_by]]
           /\ dropped' =
                 IF /\ response # Nothing
                    /\ out.ended_by = Nothing
                    /\ \E q \in Callers \ {p} :
                          /\ threads[q].cm = "waiting"
                          /\ threads[q].request_id = received_request_id(response)
                 THEN dropped \cup {response.rid}
                 ELSE dropped
    /\ UNCHANGED <<request_timeout, now, next_id, sent, caller_locals, answered>>

\* call_method of thread p has returned or raised
ConcReturn(p) ==
    /\ threads[p].cm \in {"returned", "raised"}
    /\ threads' = [threads EXCEPT ![p] = CallerIdle]
    /\ UNCHANGED <<request_timeout, now, next_id, inbox, sent, caller_locals,
                   answered, dropped>>

\* the wall clock advances while a thread waits
ConcTick ==
    /\ \E p \in Callers :
          /\ threads[p].cm = "waiting"
          /\ now - threads[p].started_at <=
                (IF Truthy(threads[p].timeout) THEN threads[p].timeout ELSE MaxTimeout)
    /\ now' = now + 1
    /\ UNCHANGED <<request_timeout, next_id, inbox, sent, caller_locals, threads,
                   answered, dropped>>

\* the remote side answers a request, once, or the channel produces an
\* update without '@extra'
ConcEmit ==
    /\ Len(inbox) < MaxInbox
    /\ \E e \in CallEnvelopes :
          /\ e.rid \in {NoExtra} \cup ({ uuid4(i) : i \in 1 .. next_id - 1 } \ answered)
          /\ inbox' = Append(inbox, e)
          /\ answered' = answered \cup ({e.rid} \ {NoExtra})
    /\ UNCHANGED <<request_timeout, now, next_id, sent, caller_locals, threads,
                   dropped>>

(***************************************************************************)
(* The client object and its public operations.  One step is one           *)
(* call_method invocation together with the code that follows it up to the *)
(* next invocation; the invocation sends its request and then returns the  *)
(* matching envelope or raises, as the remote side decides.                *)
(***************************************************************************)
VARIABLES
    phase,          \* "unborn", "constructing", "alive", "broken" (__init__
                    \* raised), "deleted"
    attrs,          \* names of the attributes set on self
    handle,         \* the native client of TDJson: "none", "open", "destroyed"
    destroy_calls,  \* calls of TDJson.destroy
    proxy,          \* self.proxy is truthy
    op,             \* the operation in progress
    pc,             \* its position
    frame,          \* its locals
    outcome,        \* "none", "return", or the kind of the exception raised
    retval,         \* the value returned
    op_sent,        \* the requests the operation has sent (the first MaxLog)
    first_seen,     \* the identifiers of the pages received, each once, in
                    \* the order of its first appearance
    lookups,        \* detail lookups (getChat, getUser) sent per identifier
    call_raised,    \* the kind the last call_method of the operation raised,
                    \* "none" when it returned
    member_pages    \* the pages getSupergroupMembers was answered with

client_vars == <<phase, attrs, handle, destroy_calls, proxy, op, pc, frame,
                 outcome, retval, op_sent, first_seen, lookups, call_raised,
                 member_pages>>

MaxLog == 5            \* requests remembered per operation
MaxPageSize == 2       \* largest page_size drawn
MaxChats == 2          \* chat identifiers 1 .. MaxChats
MaxOrder == 2          \* chat orders 1 .. MaxOrder
MaxUsers == 2          \* user identifiers 1 .. MaxUsers
MaxOffset == 3         \* the member offset stays within 0 .. MaxOffset
MaxLookups == 2        \* the lookup counters saturate here

database_encryption_key_length == 12

\* 2 ** 63 - 1: above every chat order; held as the largest integer of the checker
Int64Max == 2147483647

AuthStates ==
    { "authorizationStateReady", "authorizationStateWaitTdlibParameters",
      "authorizationStateWaitEncryptionKey", "authorizationStateWaitPhoneNumber",
      "authorizationStateWaitCode", "authorizationStateWaitPassword",
      "authorizationStateLoggingOut", "authorizationStateClosing",
      "authorizationStateClosed" }

WaitCode == "authorizationStateWaitCode"

WaitPassword == "authorizationStateWaitPassword"

Ready == "authorizationStateReady"

\* the kinds call_method raises: every kind _handle_errors gives an error
\* envelope, and UnknownError for a timeout
RaisedKinds ==
    { _handle_errors(response).kind :
         response \in { r \in ClassifyEnvelopes : r.type = "error" } }
       \cup { "UnknownError" }

KeyLengths == { database_encryption_key_length - 1, database_encryption_key_length,
                database_encryption_key_length + 1 }

PageSizes == 0 .. MaxPageSize

ChatIds == 1 .. MaxChats

Orders == 1 .. MaxOrder

UserIds == 1 .. MaxUsers

Passwords == { Absent, "", "secret" }

ChatTypes == { "chatTypeBasicGroup", "chatTypeSupergroup", "chatTypePrivate" }

\* the attributes __init__ assigns before it creates the TDJson client
ConfigAttrs ==
    { "api_id", "api_hash", "phone", "_database_encryption_key", "request_timeout",
      "request_delay", "files_directory", "use_test_data_center",
      "use_message_database", "proxy", "device_model", "application_version",
      "system_version", "system_language_code" }

\* sequences over S without repetition, of length at most n
Range(q) == { q[i] : i \in DOMAIN q }

RECURSIVE InjSeqs(_, _)
InjSeqs(S, n) ==
    IF n = 0 THEN { <<>> }
    ELSE LET shorter == InjSeqs(S, n - 1)
         IN  shorter \cup
             UNION { { Append(q, x) : x \in S \ Range(q) } :
                     q \in { r \in shorter : Len(r) = n - 1 } }

NoFrame == [nolocals |-> TRUE]

NoValue == <<>>

Request(type, arg) == [type |-> type, arg |-> arg]

\* self._tdjson_client.send(data), remembered
Send(log, req) == IF Len(log) < MaxLog THEN Append(log, req) ELSE log

NoLookups == [i \in ChatIds \cup UserIds |-> 0]

Count(counts, i) ==
    [counts EXCEPT ![i] = IF @ < MaxLookups THEN @ + 1 ELSE @]

\* the identifiers of q that seen does not hold yet, appended in order
RECURSIVE ExtendFirstSeen(_, _)
ExtendFirstSeen(seen, q) ==
    IF q = <<>> THEN seen
    ELSE ExtendFirstSeen(
            IF Head(q) \in Range(seen) THEN seen ELSE Append(seen, Head(q)),
            Tail(q))

\* if page_size <= 1
InvalidPageSize_Zero(page_size) == page_size <= 0

InvalidPageSize(page_size) == page_size <= 1

\* if chat_id not in added_chat_ids
IsNewChat_Always(chat_id, added_chat_ids) == TRUE

IsNewChat_Never(chat_id, added_chat_ids) == FALSE

IsNewChat(chat_id, added_chat_ids) == chat_id \notin added_chat_ids

\* not password
PyNot(password) == password = Absent \/ password = ""

ClientIdle ==
    /\ phase = "unborn"
    /\ attrs = {}
    /\ handle = "none"
    /\ destroy_calls = 0
    /\ proxy = FALSE
    /\ op = "none"
    /\ pc = "idle"
    /\ frame = NoFrame
    /\ outcome = "none"
    /\ retval = NoValue
    /\ op_sent = <<>>
    /\ first_seen = <<>>
    /\ lookups = NoLookups
    /\ call_raised = "none"
    /\ member_pages = <<>>

\* the operation ends by raising an exception of this kind
Raises(kind) ==
    /\ pc' = "done"
    /\ outcome' = kind
    /\ retval' = NoValue

\* call_method raised an exception of this kind and nothing caught it
CallRaises_Generic(kind) ==
    /\ call_raised' = kind
    /\ Raises("UnknownError")

CallRaises(kind) ==
    /\ call_raised' = kind
    /\ Raises(kind)

\* the operation ends by returning this value
Returns(value) ==
    /\ pc' = "done"
    /\ outcome' = "return"
    /\ retval' = value

\* the caller has the result of the operation; the frame is gone
Continue ==
    /\ pc = "done"
    /\ op' = "none"
    /\ pc' = "idle"
    /\ frame' = NoFrame
    /\ outcome' = "none"
    /\ retval' = NoValue
    /\ op_sent' = <<>>
    /\ first_seen' = <<>>
    /\ lookups' = NoLookups
    /\ call_raised' = "none"
    /\ member_pages' = <<>>
    /\ UNCHANGED <<phase, attrs, handle, destroy_calls, proxy>>

(***************************************************************************)
(* __init__, _init, _set_proxy, __del__                                    *)
(***************************************************************************)
\* __init__ up to the end of the first call_method of _init
Construct ==
    /\ phase = "unborn"
    /\ op = "none"
    /\ op' = "__init__"
    /\ \E key_length \in KeyLengths, prx \in BOOLEAN :
          IF key_length # database_encryption_key_length
          THEN /\ Raises("ValueError")
               /\ phase' = "broken"
               /\ UNCHANGED <<attrs, handle, proxy, op_sent, call_raised>>
          ELSE /\ attrs' = ConfigAttrs \cup {"_tdjson_client"}
               /\ proxy' = prx
               /\ handle' = "open"
               /\ op_sent' = Send(op_sent,
                     Request(RequestType("updateAuthorizationState",
                                         "setTdlibParameters"), 0))
               /\ \/ /\ pc' = "init_key"
                     /\ phase' = "unborn"
                     /\ call_raised' = "none"
                     /\ UNCHANGED <<outcome, retval>>
                  \/ \E k \in RaisedKinds : CallRaises(k) /\ phase' = "broken"
    /\ UNCHANGED <<destroy_calls, frame, first_seen, lookups, member_pages>>

\* the second call_method of _init and the test of self.proxy
InitCheckKey ==
    /\ op = "__init__"
    /\ pc = "init_key"
    /\ op_sent' = Send(op_sent,
          Request(RequestType("updateAuthorizationState",
                              "checkDatabaseEncryptionKey"), 0))
    /\ \/ /\ proxy
          /\ pc' = "init_proxy"
          /\ call_raised' = "none"
          /\ UNCHANGED <<phase, outcome, retval>>
       \/ /\ ~proxy
          /\ call_raised' = "none"
          /\ Returns(NoValue)
          /\ phase' = "alive"
       \/ \E k \in RaisedKinds : CallRaises(k) /\ phase' = "broken"
    /\ UNCHANGED <<attrs, handle, destroy_calls, proxy, op, frame, first_seen, lookups,
                   member_pages>>

\* _set_proxy
InitSetProxy ==
    /\ op = "__init__"
    /\ pc = "init_proxy"
    /\ op_sent' = Send(op_sent, Request(RequestType("addProxy", Absent), 0))
    /\ \/ call_raised' = "none" /\ Returns(NoValue) /\ phase' = "alive"
       \/ \E k \in RaisedKinds : CallRaises(k) /\ phase' = "broken"
    /\ UNCHANGED <<attrs, handle, destroy_calls, proxy, op, frame, first_seen, lookups,
                   member_pages>>

\* __del__: the object is collected once nothing runs on it
Del ==
    /\ phase \in {"alive", "broken"}
    /\ pc = "idle"
    /\ phase' = "deleted"
    /\ IF "_tdjson" \in attrs
       THEN /\ handle' = "destroyed"
            /\ destroy_calls' = destroy_calls + 1
       ELSE UNCHANGED <<handle, destroy_calls>>
    /\ UNCHANGED <<attrs, proxy, op, pc, frame, outcome, retval, op_sent,
                   first_seen, lookups, call_raised, member_pages>>

(***************************************************************************)
(* get_all_chats                                                           *)
(***************************************************************************)
\* the pages a getChats request with this limit may be answered with
ChatPages(limit) == InjSeqs(ChatIds, limit)

\* the validation, the initialisation of the locals
GetAllChats ==
    /\ phase = "alive"
    /\ op = "none"
    /\ op' = "get_all_chats"
    /\ \E page_size \in PageSizes :
          IF InvalidPageSize(page_size)
          THEN /\ Raises("TDLibError")
               /\ frame' = [page_size |-> page_size]
          ELSE /\ frame' = [page_size |-> page_size,
                            chats |-> <<>>,
                            added_chat_ids |-> {},
                            offset_order |-> Int64Max,
                            offset_chat_id |-> 0,
                            has_next_page |-> TRUE,
                            chat_id_list |-> <<>>,
                            idx |-> 1]
               /\ pc' = "getChats"
               /\ UNCHANGED <<outcome, retval>>
    /\ UNCHANGED <<phase, attrs, handle, destroy_calls, proxy, op_sent, first_seen,
                   lookups, call_raised, member_pages>>

\* while has_next_page: result = self.call_method('getChats', ...)
GacGetChats ==
    /\ op = "get_all_chats"
    /\ pc = "getChats"
    /\ op_sent' = Send(op_sent, Request("getChats", frame.offset_order))
    /\ \/ \E page \in ChatPages(frame.page_size) :
             /\ frame' = [frame EXCEPT !.chat_id_list = page, !.idx = 1]
             /\ first_seen' = ExtendFirstSeen(first_seen, page)
             /\ pc' = "for_chat_id"
             /\ call_raised' = "none"
             /\ UNCHANGED <<outcome, retval>>
       \/ \E k \in RaisedKinds : CallRaises(k) /\ UNCHANGED <<frame, first_seen>>
    /\ UNCHANGED <<phase, attrs, handle, destroy_calls, proxy, op, lookups, member_pages>>

\* one iteration of 'for chat_id in chat_id_list'
GacForChatId ==
    /\ op = "get_all_chats"
    /\ pc = "for_chat_id"
    /\ frame.idx <= Len(frame.chat_id_list)
    /\ LET chat_id == frame.chat_id_list[frame.idx]
       IN  IF IsNewChat(chat_id, frame.added_chat_ids)
           THEN /\ op_sent' = Send(op_sent, Request("getChat", chat_id))
                /\ lookups' = Count(lookups, chat_id)
                /\ \/ \E order \in Orders :
                         /\ frame' = [frame EXCEPT
                                        !.chats = Append(@, [id |-> chat_id, order |-> order]),
                                        !.added_chat_ids = @ \cup {chat_id},
                                        !.idx = @ + 1]
                         /\ call_raised' = "none"
                         /\ UNCHANGED <<pc, outcome, retval>>
                   \/ \E k \in RaisedKinds : CallRaises(k) /\ UNCHANGED frame
           ELSE /\ frame' = [frame EXCEPT !.idx = @ + 1]
                /\ UNCHANGED <<pc, outcome, retval, op_sent, lookups, call_raised>>
    /\ UNCHANGED <<phase, attrs, handle, destroy_calls, proxy, op, first_seen,
                   member_pages>>

\* after the for loop: advance the cursor, or leave the while loop and return
GacPageEnd ==
    /\ op = "get_all_chats"
    /\ pc = "for_chat_id"
    /\ frame.idx > Len(frame.chat_id_list)
    /\ IF frame.chat_id_list # <<>> /\ ~(Len(frame.chat_id_list) < frame.page_size)
       THEN IF frame.chats = <<>>
            THEN Raises("IndexError") /\ UNCHANGED frame
            ELSE /\ frame' = [frame EXCEPT
                                !.offset_order = frame.chats[Len(frame.chats)].order]
                 /\ pc' = "getChats"
                 /\ UNCHANGED <<outcome, retval>>
       ELSE /\ frame' = [frame EXCEPT !.has_next_page = FALSE]
            /\ Returns(frame.chats)
    /\ UNCHANGED <<phase, attrs, handle, destroy_calls, proxy, op, op_sent,
                   first_seen, lookups, call_raised, member_pages>>

(***************************************************************************)
(* send_sms_code                                                           *)
(***************************************************************************)
\* what send_sms_code does with the state get_auth_state returned
AfterAuthState_NoCheck(password, authorization_state) ==
    IF authorization_state = WaitPassword
    THEN pc' = "checkPassword" /\ UNCHANGED <<outcome, retval>>
    ELSE pc' = "finalState" /\ UNCHANGED <<outcome, retval>>

AfterAuthState(password, authorization_state) ==
    IF authorization_state = WaitPassword
    THEN IF PyNot(password)
         THEN Raises("TwoFactorPasswordNeeded")
         ELSE pc' = "checkPassword" /\ UNCHANGED <<outcome, retval>>
    ELSE pc' = "finalState" /\ UNCHANGED <<outcome, retval>>

\* the first get_auth_state and the two tests of the state
SendSmsCode ==
    /\ phase = "alive"
    /\ op = "none"
    /\ op' = "send_sms_code"
    /\ op_sent' = Send(op_sent, Request("getAuthorizationState", 0))
    /\ \E password \in Passwords :
          \/ \E authorization_state \in AuthStates :
                /\ frame' = [password |-> password,
                             authorization_state |-> authorization_state]
                /\ call_raised' = "none"
                /\ IF authorization_state = WaitCode
                   THEN pc' = "checkCode" /\ UNCHANGED <<outcome, retval>>
                   ELSE AfterAuthState(password, authorization_state)
          \/ \E k \in RaisedKinds :
                /\ CallRaises(k)
                /\ frame' = [password |-> password, authorization_state |-> Absent]
    /\ UNCHANGED <<phase, attrs, handle, destroy_calls, proxy, first_seen, lookups,
                   member_pages>>

\* call_method('checkAuthenticationCode', code=sms_code)
SscCheckCode ==
    /\ op = "send_sms_code"
    /\ pc = "checkCode"
    /\ op_sent' = Send(op_sent, Request("checkAuthenticationCode", 0))
    /\ \/ pc' = "stateAgain" /\ call_raised' = "none" /\ UNCHANGED <<outcome, retval>>
       \/ \E k \in RaisedKinds : CallRaises(k)
    /\ UNCHANGED <<phase, attrs, handle, destroy_calls, proxy, op, frame,
                   first_seen, lookups, member_pages>>

\* authorization_state = self.get_auth_state() and the WaitPassword test
SscStateAgain ==
    /\ op = "send_sms_code"
    /\ pc = "stateAgain"
    /\ op_sent' = Send(op_sent, Request("getAuthorizationState", 0))
    /\ \/ \E authorization_state \in AuthStates :
             /\ frame' = [frame EXCEPT !.authorization_state = authorization_state]
             /\ call_raised' = "none"
             /\ AfterAuthState(frame.password, authorization_state)
       \/ \E k \in RaisedKinds : CallRaises(k) /\ UNCHANGED frame
    /\ UNCHANGED <<phase, attrs, handle, destroy_calls, proxy, op, first_seen, lookups,
                   member_pages>>

\* call_method('checkAuthenticationPassword', password=password)
SscCheckPassword ==
    /\ op = "send_sms_code"
    /\ pc = "checkPassword"
    /\ op_sent' = Send(op_sent, Request("checkAuthenticationPassword", 0))
    /\ \/ pc' = "finalState" /\ call_raised' = "none" /\ UNCHANGED <<outcome, retval>>
       \/ \E k \in RaisedKinds : CallRaises(k)
    /\ UNCHANGED <<phase, attrs, handle, destroy_calls, proxy, op, frame,
                   first_seen, lookups, member_pages>>

\* self.get_auth_state()  # just for wait auth data saving
SscFinalState ==
    /\ op = "send_sms_code"
    /\ pc = "finalState"
    /\ op_sent' = Send(op_sent, Request("getAuthorizationState", 0))
    /\ \/ call_raised' = "none" /\ Returns(NoValue)
       \/ \E k \in RaisedKinds : CallRaises(k)
    /\ UNCHANGED <<phase, attrs, handle, destroy_calls, proxy, op, frame,
                   first_seen, lookups, member_pages>>

(***************************************************************************)
(* get_group_members, _get_super_group_members, get_user                   *)
(***************************************************************************)
\* the pages a getSupergroupMembers request may be answered with: at most
\* limit members, and no more than the group holds beyond the offset
MemberPages(offset, limit) ==
    { page \in InjSeqs(UserIds, limit) : offset + Len(page) <= MaxOffset }

\* for member in page: if member['user_id'] not in added_ids: members.append(member)
RECURSIVE AppendNewMembers(_, _)
AppendNewMembers(members, page) ==
    IF page = <<>> THEN members
    ELSE AppendNewMembers(
            IF Head(page) \in Range(members) THEN members ELSE Append(members, Head(page)),
            Tail(page))

\* if len(page)
HasNextPage_Never(page) == FALSE

HasNextPage(page) == Len(page) # 0

\* offset += len(page)
NextOffset_One(offset, page) == offset + 1

NextOffset(offset, page) == offset + Len(page)

\* getChat, the dispatch on the chat type, and the validation and the
\* initialisation of _get_super_group_members
GetGroupMembers ==
    /\ phase = "alive"
    /\ op = "none"
    /\ op' = "get_group_members"
    /\ op_sent' = Send(op_sent, Request("getChat", 0))
    /\ \E page_size \in PageSizes :
          \/ \E chat_type \in ChatTypes :
                /\ frame' = [page_size |-> page_size,
                             chat_type |-> chat_type,
                             members |-> <<>>,
                             added_ids |-> {},
                             offset |-> 0,
                             total_count |-> None,
                             has_next_page |-> TRUE,
                             users |-> <<>>,
                             idx |-> 1]
                /\ call_raised' = "none"
                /\ IF chat_type = "chatTypeBasicGroup"
                   THEN pc' = "basicGroupFullInfo" /\ UNCHANGED <<outcome, retval>>
                   ELSE IF chat_type = "chatTypeSupergroup"
                   THEN IF InvalidPageSize(page_size)
                        THEN Raises("TDLibError")
                        ELSE pc' = "supergroupMembers" /\ UNCHANGED <<outcome, retval>>
                   ELSE Raises("TDLibError")
          \/ \E k \in RaisedKinds :
                /\ CallRaises(k)
                /\ frame' = [page_size |-> page_size, chat_type |-> Absent]
    /\ UNCHANGED <<phase, attrs, handle, destroy_calls, proxy, first_seen, lookups,
                   member_pages>>

\* members = self.call_method('getBasicGroupFullInfo', ...)['members']
GgmBasicGroupFullInfo ==
    /\ op = "get_group_members"
    /\ pc = "basicGroupFullInfo"
    /\ op_sent' = Send(op_sent, Request("getBasicGroupFullInfo", 0))
    /\ \/ \E members \in InjSeqs(UserIds, MaxUsers) :
             /\ frame' = [frame EXCEPT !.members = members]
             /\ pc' = "getUser"
             /\ call_raised' = "none"
             /\ UNCHANGED <<outcome, retval>>
       \/ \E k \in RaisedKinds : CallRaises(k) /\ UNCHANGED frame
    /\ UNCHANGED <<phase, attrs, handle, destroy_calls, proxy, op, first_seen, lookups,
                   member_pages>>

\* one iteration of 'while has_next_page' in _get_super_group_members
SgmPage ==
    /\ op = "get_group_members"
    /\ pc = "supergroupMembers"
    /\ op_sent' = Send(op_sent, Request("getSupergroupMembers", frame.offset))
    /\ \/ \E page \in MemberPages(frame.offset, frame.page_size),
             total_count \in 0 .. MaxUsers :
             /\ frame' = [frame EXCEPT
                            !.members = AppendNewMembers(@, page),
                            !.added_ids = @ \cup Range(page),
                            !.total_count = total_count,
                            !.offset = IF HasNextPage(page)
                                       THEN NextOffset(@, page) ELSE @,
                            !.has_next_page = HasNextPage(page)]
             /\ member_pages' = Append(member_pages, page)
             /\ pc' = IF HasNextPage(page) THEN "supergroupMembers" ELSE "getUser"
             /\ call_raised' = "none"
             /\ UNCHANGED <<outcome, retval>>
       \/ \E k \in RaisedKinds :
             CallRaises(k) /\ UNCHANGED <<frame, member_pages>>
    /\ UNCHANGED <<phase, attrs, handle, destroy_calls, proxy, op, first_seen, lookups>>

\* one element of [self.get_user(m['user_id']) for m in members]
GgmGetUser ==
    /\ op = "get_group_members"
    /\ pc = "getUser"
    /\ frame.idx <= Len(frame.members)
    /\ LET user_id == frame.members[frame.idx]
       IN  /\ op_sent' = Send(op_sent, Request("getUser", user_id))
           /\ lookups' = Count(lookups, user_id)
           /\ \/ /\ frame' = [frame EXCEPT !.users = Append(@, [id |-> user_id]),
                                           !.idx = @ + 1]
                 /\ call_raised' = "none"
                 /\ UNCHANGED <<pc, outcome, retval>>
              \/ \E k \in RaisedKinds : CallRaises(k) /\ UNCHANGED frame
    /\ UNCHANGED <<phase, attrs, handle, destroy_calls, proxy, op, first_seen,
                   member_pages>>

\* return users
GgmReturn ==
    /\ op = "get_group_members"
    /\ pc = "getUser"
    /\ frame.idx > Len(frame.members)
    /\ Returns(frame.users)
    /\ UNCHANGED <<phase, attrs, handle, destroy_calls, proxy, op, frame, op_sent,
                   first_seen, lookups, call_raised, member_pages>>

(***************************************************************************)
(* log_out, get_auth_state                                                 *)
(***************************************************************************)
\* except (errors.AuthError, errors.AlreadyLoggingOut): pass
Suppressed == { "AuthError", "AlreadyLoggingOut" }

\* try: self.call_method('logOut') except ...: pass
LogOut ==
    /\ phase = "alive"
    /\ op = "none"
    /\ op' = "log_out"
    /\ op_sent' = Send(op_sent, Request("logOut", 0))
    /\ \/ /\ call_raised' = "none"
          /\ pc' = "logState"
          /\ UNCHANGED <<outcome, retval>>
       \/ \E k \in RaisedKinds :
             /\ call_raised' = k
             /\ IF k \in Suppressed
                THEN pc' = "logState" /\ UNCHANGED <<outcome, retval>>
                ELSE Raises(k)
    /\ frame' = [logOut_raised |-> call_raised']
    /\ UNCHANGED <<phase, attrs, handle, destroy_calls, proxy, first_seen, lookups,
                   member_pages>>

\* logger.info('Logged out ...', self.phone, self.get_auth_state())
LogOutState ==
    /\ op = "log_out"
    /\ pc = "logState"
    /\ op_sent' = Send(op_sent, Request("getAuthorizationState", 0))
    /\ \/ call_raised' = "none" /\ Returns(NoValue)
       \/ \E k \in RaisedKinds : CallRaises(k)
    /\ UNCHANGED <<phase, attrs, handle, destroy_calls, proxy, op, frame,
                   first_seen, lookups, member_pages>>

(***************************************************************************)
(* the operations that are one call_method: get_auth_state, is_authorized, *)
(* auth_request, get_me, get_user                                          *)
(***************************************************************************)
\* a returned value that is not a list, held like the lists are
Single(value) == << value >>

\* result = self.call_method('getAuthorizationState'); return result['@type']
GetAuthState ==
    /\ phase = "alive"
    /\ op = "none"
    /\ op' = "get_auth_state"
    /\ op_sent' = Send(op_sent, Request("getAuthorizationState", 0))
    /\ \/ \E authorization_state \in AuthStates :
             call_raised' = "none" /\ Returns(Single([type |-> authorization_state]))
       \/ \E k \in RaisedKinds : CallRaises(k)
    /\ UNCHANGED <<phase, attrs, handle, destroy_calls, proxy, frame, first_seen,
                   lookups, member_pages>>

\* return authorization_state == AuthStates.Ready
IsAuthorized ==
    /\ phase = "alive"
    /\ op = "none"
    /\ op' = "is_authorized"
    /\ op_sent' = Send(op_sent, Request("getAuthorizationState", 0))
    /\ \/ \E authorization_state \in AuthStates :
             /\ frame' = [authorization_state |-> authorization_state]
             /\ call_raised' = "none"
             /\ Returns(Single([authorized |-> authorization_state = Ready]))
       \/ \E k \in RaisedKinds :
             CallRaises(k) /\ frame' = [authorization_state |-> Absent]
    /\ UNCHANGED <<phase, attrs, handle, destroy_calls, proxy, first_seen, lookups,
                   member_pages>>

\* response = self.call_method('setAuthenticationPhoneNumber', ...)
AuthRequest ==
    /\ phase = "alive"
    /\ op = "none"
    /\ op' = "auth_request"
    /\ op_sent' = Send(op_sent, Request("setAuthenticationPhoneNumber", 0))
    /\ \/ call_raised' = "none" /\ Returns(NoValue)
       \/ \E k \in RaisedKinds : CallRaises(k)
    /\ UNCHANGED <<phase, attrs, handle, destroy_calls, proxy, frame, first_seen,
                   lookups, member_pages>>

\* result = self.call_method('getMe'); return result
GetMe ==
    /\ phase = "alive"
    /\ op = "none"
    /\ op' = "get_me"
    /\ op_sent' = Send(op_sent, Request("getMe", 0))
    /\ \/ \E user_id \in UserIds :
             call_raised' = "none" /\ Returns(Single([id |-> user_id]))
       \/ \E k \in RaisedKinds : CallRaises(k)
    /\ UNCHANGED <<phase, attrs, handle, destroy_calls, proxy, frame, first_seen,
                   lookups, member_pages>>

\* user = self.call_method('getUser', user_id=user_id); return user
GetUser ==
    /\ phase = "alive"
    /\ op = "none"
    /\ op' = "get_user"
    /\ \E user_id \in UserIds :
          /\ op_sent' = Send(op_sent, Request("getUser", user_id))
          /\ lookups' = Count(lookups, user_id)
          /\ \/ call_raised' = "none" /\ Returns(Single([id |-> user_id]))
             \/ \E k \in RaisedKinds : CallRaises(k)
    /\ UNCHANGED <<phase, attrs, handle, destroy_calls, proxy, frame, first_seen,
                   member_pages>>

vars == <<cl_vars, call_vars, client_vars, life_vars, conc_vars>>

ClassifyInit ==
    /\ cl_response \in ClassifyEnvelopes
    /\ cl_raised = NotRaised
    /\ cl_done = FALSE
    /\ CallIdle
    /\ ClientIdle
    /\ LifeIdle
    /\ ConcIdle

ClassifyNext ==
    HandleErrors /\ UNCHANGED <<call_vars, client_vars, life_vars, conc_vars>>

SpecClassify == ClassifyInit /\ [][ClassifyNext]_vars

InitCall == CallInit /\ ClassifyIdle /\ ClientIdle /\ LifeIdle /\ ConcIdle

NextCall ==
    \/ CallMethod /\ UNCHANGED <<cl_vars, client_vars, life_vars, conc_vars>>
    \/ WaitStep /\ UNCHANGED <<cl_vars, client_vars, life_vars, conc_vars>>
    \/ CallReturn /\ UNCHANGED <<cl_vars, client_vars, life_vars, conc_vars>>
    \/ Tick /\ UNCHANGED <<cl_vars, client_vars, life_vars, conc_vars>>
    \/ Emit /\ UNCHANGED <<cl_vars, client_vars, life_vars, conc_vars>>

SpecCall == InitCall /\ [][NextCall]_vars

\* the caller's thread keeps running and the clock keeps advancing
FairSpecCall == SpecCall /\ WF_call_vars(WaitStep) /\ WF_call_vars(Tick)

\* calls made without a timeout of their own, with the history of the
\* envelopes kept
NextLifetime ==
    \/ CallMethodGiven(None) /\ UNCHANGED <<cl_vars, client_vars, life_vars, conc_vars>>
    \/ LifeWaitStep /\ UNCHANGED <<cl_vars, client_vars, conc_vars>>
    \/ CallReturn /\ UNCHANGED <<cl_vars, client_vars, life_vars, conc_vars>>
    \/ Tick /\ UNCHANGED <<cl_vars, client_vars, life_vars, conc_vars>>
    \/ Emit /\ UNCHANGED <<cl_vars, client_vars, life_vars, conc_vars>>

SpecLifetime == InitCall /\ [][NextLifetime]_vars

NextConcurrent ==
    \/ \E p \in Callers :
          ConcCallMethod(p) /\ UNCHANGED <<cl_vars, client_vars, life_vars>>
    \/ \E p \in Callers :
          ConcWaitStep(p) /\ UNCHANGED <<cl_vars, client_vars, life_vars>>
    \/ \E p \in Callers :
          ConcReturn(p) /\ UNCHANGED <<cl_vars, client_vars, life_vars>>
    \/ ConcTick /\ UNCHANGED <<cl_vars, client_vars, life_vars>>
    \/ ConcEmit /\ UNCHANGED <<cl_vars, client_vars, life_vars>>

SpecConcurrent == InitCall /\ [][NextConcurrent]_vars

InitClient == ClientIdle /\ CallIdle /\ ClassifyIdle /\ LifeIdle /\ ConcIdle

NextClient ==
    \/ Construct /\ UNCHANGED <<cl_vars, call_vars, life_vars, conc_vars>>
    \/ InitCheckKey /\ UNCHANGED <<cl_vars, call_vars, life_vars, conc_vars>>
    \/ InitSetProxy /\ UNCHANGED <<cl_vars, call_vars, life_vars, conc_vars>>
    \/ Del /\ UNCHANGED <<cl_vars, call_vars, life_vars, conc_vars>>
    \/ Continue /\ UNCHANGED <<cl_vars, call_vars, life_vars, conc_vars>>
    \/ GetAllChats /\ UNCHANGED <<cl_vars, call_vars, life_vars, conc_vars>>
    \/ GacGetChats /\ UNCHANGED <<cl_vars, call_vars, life_vars, conc_vars>>
    \/ GacForChatId /\ UNCHANGED <<cl_vars, call_vars, life_vars, conc_vars>>
    \/ GacPageEnd /\ UNCHANGED <<cl_vars, call_vars, life_vars, conc_vars>>
    \/ SendSmsCode /\ UNCHANGED <<cl_vars, call_vars, life_vars, conc_vars>>
    \/ SscCheckCode /\ UNCHANGED <<cl_vars, call_vars, life_vars, conc_vars>>
    \/ SscStateAgain /\ UNCHANGED <<cl_vars, call_vars, life_vars, conc_vars>>
    \/ SscCheckPassword /\ UNCHANGED <<cl_vars, call_vars, life_vars, conc_vars>>
    \/ SscFinalState /\ UNCHANGED <<cl_vars, call_vars, life_vars, conc_vars>>
    \/ GetGroupMembers /\ UNCHANGED <<cl_vars, call_vars, life_vars, conc_vars>>
    \/ GgmBasicGroupFullInfo /\ UNCHANGED <<cl_vars, call_vars, life_vars, conc_vars>>
    \/ SgmPage /\ UNCHANGED <<cl_vars, call_vars, life_vars, conc_vars>>
    \/ GgmGetUser /\ UNCHANGED <<cl_vars, call_vars, life_vars, conc_vars>>
    \/ GgmReturn /\ UNCHANGED <<cl_vars, call_vars, life_vars, conc_vars>>
    \/ LogOut /\ UNCHANGED <<cl_vars, call_vars, life_vars, conc_vars>>
    \/ LogOutState /\ UNCHANGED <<cl_vars, call_vars, life_vars, conc_vars>>
    \/ GetAuthState /\ UNCHANGED <<cl_vars, call_vars, life_vars, conc_vars>>
    \/ IsAuthorized /\ UNCHANGED <<cl_vars, call_vars, life_vars, conc_vars>>
    \/ AuthRequest /\ UNCHANGED <<cl_vars, call_vars, life_vars, conc_vars>>
    \/ GetMe /\ UNCHANGED <<cl_vars, call_vars, life_vars, conc_vars>>
    \/ GetUser /\ UNCHANGED <<cl_vars, call_vars, life_vars, conc_vars>>

SpecClient == InitClient /\ [][NextClient]_vars

\* the caller's thread keeps running and every call_method ends
FairSpecClient == SpecClient /\ WF_vars(NextClient)

(***************************************************************************)
(* Properties of the request correlator                                    *)
(***************************************************************************)

\* C1: whenever call_method returns an envelope, the request_id in its
\* '@extra' equals the request_id this invocation generated and attached to
\* the request it sent (the last request handed to send).
C1_ResponseRequestIdentity ==
    cm = "returned" =>
        /\ result # Nothing
        /\ received_request_id(result) = request_id
        /\ sent # <<>>
        /\ sent[Len(sent)].rid = request_id
        /\ \A i \in 1 .. Len(sent) - 1 : sent[i].rid # request_id

\* a call returned its envelope after the channel had emitted others first
C1_Witness ==
    /\ cm = "returned"
    /\ nDiscarded >= 1
    /\ result.rid = request_id

\* C2: an envelope dequeued by a waiting call that carries another
\* identifier or none is never returned and never ends the call as a match
\* (the call goes on polling or times out); the envelope carrying the call's
\* identifier, once dequeued, ends the call: it is returned, or raised as its
\* classified error.
C2_UnrelatedDiscardedThenMatch ==
    [][ (cm = "waiting" /\ inbox # <<>> /\ inbox' = Tail(inbox)) =>
          IF Head(inbox).rid = request_id
          THEN /\ ended_by' = Head(inbox)
               /\ \/ cm' = "returned" /\ result' = Head(inbox)
                  \/ /\ cm' = "raised"
                     /\ Head(inbox).type = "error"
                     /\ error' # TimeOutError
                     /\ error'.exc = <<Head(inbox).code, Head(inbox).message>>
          ELSE /\ ended_by' = Nothing
               /\ result' = Nothing
               /\ cm' = "waiting" \/ (cm' = "raised" /\ error' = TimeOutError) ]_vars

\* a call ended with its own envelope after N = MaxDiscarded unrelated ones
C2_Witness ==
    /\ cm \in {"returned", "raised"}
    /\ ended_by # Nothing
    /\ ended_by.rid = request_id
    /\ nDiscarded = MaxDiscarded

\* C3: with a non-zero timeout in force a waiting call always ends, and it
\* ends with UnknownError('TimeOutError') unless the envelope carrying its
\* identifier was dequeued; this holds when the channel is silent and when
\* it keeps emitting non-matching envelopes.
C3_TimeoutEndsTheWait ==
    (cm = "waiting" /\ Truthy(timeout)) ~>
        \/ cm = "raised" /\ error = TimeOutError /\ ended_by = Nothing
        \/ cm \in {"returned", "raised"} /\ ended_by.rid = request_id

\* a call timed out although the channel kept emitting envelopes
C3_Witness ==
    /\ cm = "raised"
    /\ error = TimeOutError
    /\ nDiscarded >= 1
    /\ now - started_at > timeout

\* C13: every call_method invocation hands exactly one request envelope to
\* the channel, whatever its outcome: the envelopes sent are as many as the
\* invocations made, each carrying the identifier of its invocation, and a
\* call that ended in a timeout or a classified error has sent no second one.
C13_OneSendPerCall ==
    /\ Len(sent) = next_id - 1
    /\ \A i \in DOMAIN sent : sent[i].rid = i
    /\ cm # "idle" =>
          /\ request_id = next_id - 1
          /\ Cardinality({ i \in DOMAIN sent : sent[i].rid = request_id }) = 1

\* the second call timed out, and two envelopes have been sent in all
C13_Witness ==
    /\ cm = "raised"
    /\ error = TimeOutError
    /\ request_id = 2
    /\ Len(sent) = 2

\* C14 as stated: with a default of zero or None and no per-call timeout the
\* call never times out and ends only by its matching envelope; with a
\* per-call timeout given, that value bounds the wait.
C14_GivenTimeoutBoundsTheWait ==
    cm # "idle" =>
        /\ (~Truthy(request_timeout) /\ timeout_arg = None) =>
              /\ error # TimeOutError
              /\ cm \in {"returned", "raised"} => ended_by.rid = request_id
        /\ timeout_arg # None =>
              /\ timeout = timeout_arg
              /\ error = TimeOutError => now - started_at > timeout_arg

\* C14 amended: a per-call timeout of zero counts as not given.  With no
\* per-call timeout, or zero, the configured default is in force, and when
\* that is zero or None as well the call never times out and ends only by
\* its matching envelope; a per-call timeout other than zero is in force
\* whatever the default, and the call times out only after more than that
\* time has passed.
C14_NonZeroTimeoutOverrides ==
    cm # "idle" =>
        /\ ~Truthy(timeout_arg) => timeout = request_timeout
        /\ (~Truthy(timeout_arg) /\ ~Truthy(request_timeout)) =>
              /\ error # TimeOutError
              /\ cm \in {"returned", "raised"} => ended_by.rid = request_id
        /\ Truthy(timeout_arg) =>
              /\ timeout = timeout_arg
              /\ error = TimeOutError => now - started_at > timeout_arg

\* a call given a timeout shorter than the default timed out before the
\* default had passed
C14_Witness ==
    /\ cm = "raised"
    /\ error = TimeOutError
    /\ Truthy(timeout_arg)
    /\ timeout_arg < request_timeout
    /\ now - started_at <= request_timeout

\* C15: over the lifetime of the client at most one envelope is matched to
\* an identifier.  A call ends by a match only with the envelope it has just
\* dequeued, which carries its own identifier, to which nothing was matched
\* before; an envelope carrying the identifier of an earlier call, returned
\* or timed out, is discarded by the call that dequeues it; and a discarded
\* envelope is kept nowhere: the step leaves no envelope in the caller's
\* state, so no later call can return it.
C15_AtMostOneMatchPerIdentifier ==
    [][ /\ \A i \in 1 .. MaxCalls : matched'[i] <= 1
        /\ (ended_by = Nothing /\ ended_by' # Nothing) =>
              /\ cm = "waiting"
              /\ inbox # <<>>
              /\ ended_by' = Head(inbox)
              /\ Head(inbox).rid = request_id
              /\ request_id = uuid4(next_id - 1)
              /\ matched[request_id] = 0
        /\ (cm = "waiting" /\ inbox # <<>> /\ inbox' = Tail(inbox)
              /\ IsLate(request_id, Head(inbox))) =>
              /\ ended_by' = Nothing
              /\ result' = Nothing
              /\ matched' = matched
              /\ cm' = "waiting" \/ (cm' = "raised" /\ error' = TimeOutError) ]_vars

\* the second call discarded an envelope carrying the identifier of the
\* first call, which had been matched already, and then got its own
C15_Witness ==
    /\ request_id = uuid4(2)
    /\ cm = "returned"
    /\ late >= 1
    /\ matched[uuid4(1)] = 1
    /\ matched[uuid4(2)] = 1

\* C16: with two threads in call_method on the same channel, a thread ends
\* by a match only with the envelope carrying its own identifier, never with
\* the one carrying the identifier of the other; the answer to a thread's
\* request that the other thread dequeued is gone: it is in no thread's
\* state, and the thread that issued the request goes on waiting or ends by
\* the timeout.
C16_ConcurrentCallsLoseAnswers ==
    \A p \in Callers :
        /\ threads[p].result # Nothing =>
              threads[p].result.rid = threads[p].request_id
        /\ threads[p].ended_by # Nothing =>
              threads[p].ended_by.rid = threads[p].request_id
        /\ \A q \in Callers \ {p} :
              (threads[p].cm # "idle" /\ threads[q].cm # "idle") =>
                 /\ threads[p].request_id # threads[q].request_id
                 /\ threads[p].ended_by # Nothing =>
                       threads[p].ended_by.rid # threads[q].request_id
        /\ (threads[p].cm # "idle" /\ threads[p].request_id \in dropped) =>
              /\ threads[p].result = Nothing
              /\ threads[p].ended_by = Nothing
              /\ \/ threads[p].cm = "waiting"
                 \/ threads[p].cm = "raised" /\ threads[p].error = TimeOutError

\* thread A timed out after thread B, still waiting, had dequeued the answer
\* to A's request
C16_Witness ==
    /\ threads["A"].cm = "raised"
    /\ threads["A"].error = TimeOutError
    /\ threads["A"].request_id \in dropped
    /\ threads["B"].cm = "waiting"

(***************************************************************************)
(* Properties of the error classifier                                      *)
(***************************************************************************)
TextRules ==
    { <<"PHONE_NUMBER_INVALID", "InvalidPhoneNumber">>,
      <<"PASSWORD_HASH_INVALID", "PasswordError">>,
      <<"PHONE_CODE_INVALID", "PhoneCodeInvalid">>,
      <<"Supergroup members are unavailable", "NoPermission">>,
      <<"Chat not found", "ObjectNotFound">>,
      <<"setAuthenticationPhoneNumber unexpected", "AlreadyAuthorized">>,
      <<"Already logging out", "AlreadyLoggingOut">> }

\* C5: a non-error envelope raises nothing; for an error envelope the seven
\* message texts decide the kind whatever the code, then code 401 or message
\* 'Unauthorized' gives AuthError, then code 429 or 420 gives
\* TooManyRequests, and anything else gives UnknownError; every raised error
\* carries the envelope's code and message.
C5_ClassifierTable ==
    cl_done =>
        LET code == cl_response.code
            text == cl_response.message
            byText == \E r \in TextRules : r[1] = text
            auth == code = 401 \/ text = "Unauthorized"
            rate == code \in {429, 420}
        IN  /\ cl_response.type # "error" => cl_raised = NotRaised
            /\ cl_response.type = "error" =>
                 /\ cl_raised.exc[1] = code
                 /\ cl_raised.exc[2] =
                       (IF text = Absent THEN "Empty error message" ELSE text)
                 /\ \A r \in TextRules : r[1] = text => cl_raised.kind = r[2]
                 /\ (~byText /\ auth) => cl_raised.kind = "AuthError"
                 /\ (~byText /\ ~auth /\ rate) => cl_raised.kind = "TooManyRequests"
                 /\ (~byText /\ ~auth /\ ~rate) => cl_raised.kind = "UnknownError"

\* 'PHONE_NUMBER_INVALID' arrived with code 401 and was classified by its text
C5_Witness ==
    /\ cl_done
    /\ cl_response.type = "error"
    /\ cl_response.message = "PHONE_NUMBER_INVALID"
    /\ cl_response.code = 401
    /\ cl_raised.kind = "InvalidPhoneNumber"

(***************************************************************************)
(* Properties of the client object and its operations                      *)
(***************************************************************************)

\* C4: once the client object is torn down, the native handle acquired in
\* the constructor has been released by exactly one call of TDJson.destroy,
\* whether construction succeeded or the bootstrap sequence failed.
C4_HandleReleasedOnce ==
    (phase = "deleted" /\ handle # "none") =>
        (handle = "destroyed" /\ destroy_calls = 1)

TypesOf(log) == [i \in DOMAIN log |-> log[i].type]

\* C6: get_all_chats returns every chat identifier of the received pages
\* once, in the order of first appearance, also when pages share
\* identifiers, and has sent getChat exactly once per distinct identifier.
C6_ChatsDeduplicatedInOrder ==
    (op = "get_all_chats" /\ pc = "done" /\ outcome = "return") =>
        /\ Len(retval) = Len(first_seen)
        /\ \A i \in DOMAIN retval : retval[i].id = first_seen[i]
        /\ \A i, j \in DOMAIN retval : retval[i].id = retval[j].id => i = j
        /\ \A c \in ChatIds : lookups[c] = IF c \in Range(first_seen) THEN 1 ELSE 0

\* the listing returned after a last page that repeated an identifier whose
\* getChat had been sent before an earlier getChats request
C6_Witness ==
    /\ op = "get_all_chats"
    /\ pc = "done"
    /\ outcome = "return"
    /\ Len(retval) >= 2
    /\ \E i \in DOMAIN frame.chat_id_list, a, b \in DOMAIN op_sent :
          /\ a < b
          /\ op_sent[a] = Request("getChat", frame.chat_id_list[i])
          /\ op_sent[b].type = "getChats"

\* C7: get_all_chats terminates whenever every getChats request is answered
\* with at most page_size identifiers out of a finite set of chats, pages
\* overlapping or not.
C7_ChatListingTerminates ==
    (op = "get_all_chats") ~> (op = "get_all_chats" /\ pc = "done")

\* C8: get_all_chats with page_size <= 1 fails with the validation error and
\* has sent no request.
C8_PageSizeValidatedBeforeSend ==
    (op = "get_all_chats" /\ frame.page_size <= 1) =>
        /\ pc = "done"
        /\ outcome = "TDLibError"
        /\ op_sent = <<>>
        /\ lookups = NoLookups

\* get_all_chats(page_size=1) failed
C8_Witness ==
    /\ op = "get_all_chats"
    /\ frame.page_size = 1
    /\ pc = "done"
    /\ outcome = "TDLibError"

\* C9: a validation failure (the encryption key length at construction, the
\* page_size of get_group_members) is raised with no request sent during
\* that operation.
C9_ValidationBeforeAnySend ==
    /\ (op = "__init__" /\ pc = "done" /\ outcome = "ValueError") => op_sent = <<>>
    /\ (op = "get_group_members" /\ pc = "done" /\ outcome = "TDLibError"
          /\ frame.chat_type = "chatTypeSupergroup" /\ frame.page_size <= 1)
       => op_sent = <<>>

\* C10 as stated: send_sms_code fails with TwoFactorPasswordNeeded before any
\* request is sent on the channel.
C10_NoRequestBeforeTwoFactor ==
    (op = "send_sms_code" /\ pc = "done" /\ outcome = "TwoFactorPasswordNeeded") =>
        op_sent = <<>>

\* C10 amended: send_sms_code called without a password fails with
\* TwoFactorPasswordNeeded as soon as get_auth_state has reported
\* WaitPassword, and no checkAuthenticationPassword request is sent; the
\* requests sent by then are the getAuthorizationState query alone, or that
\* query, checkAuthenticationCode and a second getAuthorizationState.
C10_TwoFactorBeforePasswordCheck ==
    (op = "send_sms_code" /\ frame.authorization_state = WaitPassword
       /\ frame.password \in {Absent, ""}) =>
        /\ pc = "done"
        /\ outcome = "TwoFactorPasswordNeeded"
        /\ \A i \in DOMAIN op_sent : op_sent[i].type # "checkAuthenticationPassword"
        /\ TypesOf(op_sent) \in
              { <<"getAuthorizationState">>,
                <<"getAuthorizationState", "checkAuthenticationCode",
                  "getAuthorizationState">> }

\* the state was WaitCode first and WaitPassword after the code was checked
C10_Witness ==
    /\ op = "send_sms_code"
    /\ outcome = "TwoFactorPasswordNeeded"
    /\ frame.password = Absent
    /\ Len(op_sent) = 3

(***************************************************************************)
(* Properties of log_out, the member listing and the bootstrap             *)
(***************************************************************************)

\* C11: log_out lets neither AuthError nor AlreadyLoggingOut escape: when a
\* request it made (logOut, or the getAuthorizationState that follows) was
\* answered with an envelope classified as one of the two, log_out still
\* returns normally.
C11_LogOutSuppresses ==
    (op = "log_out" /\ pc = "done" /\ call_raised \in Suppressed) =>
        outcome = "return"

CountType(log, type) == Cardinality({ i \in DOMAIN log : log[i].type = type })

RECURSIVE SumLens(_)
SumLens(pages) ==
    IF pages = <<>> THEN 0 ELSE Len(Head(pages)) + SumLens(Tail(pages))

RECURSIVE Flatten(_)
Flatten(pages) ==
    IF pages = <<>> THEN <<>> ELSE Head(pages) \o Flatten(Tail(pages))

\* C12: get_group_members on a basic group takes the members from exactly
\* one getBasicGroupFullInfo request and sends no paging request; on a super
\* group it sends one getSupergroupMembers request per page and leaves the
\* loop exactly at the first page without members; a total_count that
\* differs from the number of accumulated members never aborts the call; a
\* chat of any other type fails with TDLibError after the getChat request.
C12_GroupMemberPaths ==
    (op = "get_group_members" /\ frame.chat_type # Absent) =>
        /\ frame.chat_type = "chatTypeBasicGroup" =>
              /\ member_pages = <<>>
              /\ CountType(op_sent, "getSupergroupMembers") = 0
              /\ CountType(op_sent, "getBasicGroupFullInfo") =
                    (IF pc = "basicGroupFullInfo" THEN 0 ELSE 1)
        /\ (frame.chat_type = "chatTypeSupergroup" /\ frame.page_size > 1) =>
              /\ CountType(op_sent, "getBasicGroupFullInfo") = 0
              /\ \A i \in 1 .. Len(member_pages) - 1 : member_pages[i] # <<>>
              /\ pc = "supergroupMembers" =>
                    /\ member_pages # <<>> => Last(member_pages) # <<>>
                    /\ CountType(op_sent, "getSupergroupMembers") = Len(member_pages)
              /\ (pc = "getUser" \/ (pc = "done" /\ outcome = "return")) =>
                    /\ member_pages # <<>>
                    /\ Last(member_pages) = <<>>
                    /\ CountType(op_sent, "getSupergroupMembers") = Len(member_pages)
              /\ (member_pages # <<>> /\ Last(member_pages) = <<>>) =>
                    \/ pc = "getUser"
                    \/ pc = "done" /\ outcome = "return"
                    \/ /\ pc = "done"
                       /\ outcome = call_raised
                       /\ frame.idx <= Len(frame.members)
                       /\ lookups[frame.members[frame.idx]] >= 1
        /\ frame.chat_type \notin {"chatTypeBasicGroup", "chatTypeSupergroup"} =>
              /\ pc = "done"
              /\ outcome = "TDLibError"
              /\ TypesOf(op_sent) = <<"getChat">>

\* a super group was listed in two pages and an empty one, and the total
\* reported with the last page was not the number of members accumulated
C12_Witness ==
    /\ op = "get_group_members"
    /\ pc = "done"
    /\ outcome = "return"
    /\ frame.chat_type = "chatTypeSupergroup"
    /\ Len(member_pages) >= 3
    /\ frame.total_count # Len(frame.members)

Bootstrap == << "setTdlibParameters", "checkDatabaseEncryptionKey", "addProxy" >>

\* C17: construction sends setTdlibParameters, then
\* checkDatabaseEncryptionKey, then addProxy only when a proxy is configured,
\* each once and each only after the request before it returned; a timeout
\* or a classified error in a step aborts construction with that error and
\* nothing further is sent; no later operation sends a bootstrap request.
C17_BootstrapOrder ==
    /\ op = "__init__" =>
          /\ Len(op_sent) <= Len(Bootstrap)
          /\ TypesOf(op_sent) = SubSeq(Bootstrap, 1, Len(op_sent))
          /\ pc = "init_key" => (Len(op_sent) = 1 /\ call_raised = "none")
          /\ pc = "init_proxy" => (Len(op_sent) = 2 /\ call_raised = "none" /\ proxy)
          /\ (pc = "done" /\ outcome = "return") =>
                (Len(op_sent) = (IF proxy THEN 3 ELSE 2) /\ phase = "alive")
          /\ call_raised # "none" =>
                /\ pc = "done"
                /\ outcome = call_raised
                /\ phase = "broken"
                /\ Len(op_sent) >= 1
                /\ Len(op_sent) = 3 => proxy
    /\ op # "__init__" =>
          \A i \in DOMAIN op_sent :
             \A j \in DOMAIN Bootstrap : op_sent[i].type # Bootstrap[j]

\* a client with a proxy was constructed
C17_Witness ==
    /\ op = "__init__"
    /\ pc = "done"
    /\ outcome = "return"
    /\ proxy
    /\ Len(op_sent) = 3

\* C18: in the super-group loop every getSupergroupMembers request carries
\* as offset the sum of the lengths of the pages received before it; the
\* accumulated members hold each user identifier of those pages once, in the
\* order of first appearance; getUser is sent only after the loop, once per
\* accumulated member.
C18_MemberOffsetsAndLookups ==
    (op = "get_group_members" /\ frame.chat_type = "chatTypeSupergroup"
       /\ frame.page_size > 1) =>
        /\ frame.offset = SumLens(member_pages)
        /\ \A i \in DOMAIN op_sent :
              op_sent[i].type = "getSupergroupMembers" =>
                 op_sent[i].arg = SumLens(SubSeq(member_pages, 1, i - 2))
        /\ frame.members = ExtendFirstSeen(<<>>, Flatten(member_pages))
        /\ \A i, j \in DOMAIN frame.members :
              frame.members[i] = frame.members[j] => i = j
        /\ pc = "supergroupMembers" => lookups = NoLookups
        /\ (pc = "done" /\ outcome = "return") =>
              /\ Len(retval) = Len(frame.members)
              /\ \A i \in DOMAIN retval : retval[i].id = frame.members[i]
              /\ \A u \in UserIds :
                    lookups[u] = IF u \in Range(frame.members) THEN 1 ELSE 0

\* the members were returned after pages that repeated a user
C18_Witness ==
    /\ op = "get_group_members"
    /\ pc = "done"
    /\ outcome = "return"
    /\ frame.chat_type = "chatTypeSupergroup"
    /\ Len(frame.members) >= 2
    /\ SumLens(member_pages) > Len(frame.members)

Listings == { "get_all_chats", "get_group_members" }

\* C19: when a request made inside get_all_chats or get_group_members ends
\* in a classified error or a timeout, the listing ends with that very
\* error, returns no list, and sends nothing more.
C19_ListingErrorsPropagate ==
    [][ (op \in Listings /\ call_raised # "none") =>
          /\ pc = "done"
          /\ outcome = call_raised
          /\ retval = NoValue
          /\ op' = "none" \/ op_sent' = op_sent ]_vars

\* getChats failed with AuthError after chats had been accumulated
C19_Witness ==
    /\ op = "get_all_chats"
    /\ pc = "done"
    /\ call_raised = "AuthError"
    /\ outcome = "AuthError"
    /\ frame.chats # <<>>
    /\ Last(op_sent).type = "getChats"

\* C20: whenever get_all_chats advances the cursor (the page is not empty
\* and not shorter than page_size) the accumulated chat list is not empty,
\* also when every identifier of the page had been seen before, so that
\* chats[-1] never fails.
C20_CursorAdvanceHasChats ==
    op = "get_all_chats" =>
        /\ outcome # "IndexError"
        /\ (pc = "for_chat_id" /\ frame.idx > Len(frame.chat_id_list)
              /\ frame.chat_id_list # <<>>
              /\ Len(frame.chat_id_list) >= frame.page_size) =>
                 frame.chats # <<>>
        /\ (pc = "getChats" /\ op_sent # <<>>) =>
              /\ frame.chats # <<>>
              /\ frame.offset_order = Last(frame.chats).order

\* the cursor was advanced after a full page that held no new identifier
C20_Witness ==
    /\ op = "get_all_chats"
    /\ pc = "getChats"
    /\ Len(op_sent) < MaxLog
    /\ op_sent # <<>>
    /\ Last(op_sent).type = "getChats"
    /\ Range(frame.chat_id_list) \subseteq frame.added_chat_ids

=============================================================================
